---- MODULE Spec2Model ----
(***************************************************************************)
(* Model of strand_morse/object_placement.py: placing objects on a         *)
(* supporting plane by rejection sampling (RootNode.place_objects,         *)
(* ObjectNode.place_children) and the geometric functions they use         *)
(* (BBox, within_root_bbox, in_collision, calc_distance_range).            *)
(*                                                                         *)
(* Numbers.  The program computes with Python floats.  Every quantity the  *)
(* placement code derives from bounding boxes is a sum, difference, half,  *)
(* minimum or a multiple by sqrt(2) (math.sqrt(2*g**2), sin and cos of a   *)
(* multiple of pi/4) of its inputs, so the model computes exactly in       *)
(* Z[sqrt 2]: a number is a pair <<a, b>> standing for a + b*sqrt(2).      *)
(* Lengths are integer multiples of a fine unit (Grid(1) is 1024 units) so   *)
(* that every halving the code performs is exact.                          *)
(***************************************************************************)
EXTENDS Integers, Sequences, FiniteSets

VARIABLES
    input,      \* arguments of the function under test (function specifications)
    output,     \* its result, NoResult before the call
    tree,       \* the nodes built by the caller: children, anchors, directions,
                \* distances, local_bbox per node; the root's pose in the world
    objects,    \* RootNode.objects
    positions,  \* RootNode.positions
    orientations,       \* RootNode.orientations
    global_bboxes,      \* RootNode.global_bboxes
    global_bboxes_json, \* RootNode.global_bboxes_json
    scenes,     \* RootNode.scenes
    stack,      \* the active calls: place_objects at the bottom, then one
                \* place_children per level; each with its node and the index
                \* of the child its for loop is at
    range,      \* [min_dist, max_dist] of the running place_children
    i,          \* the counter i of the while loop at hand; 0 between two loops,
                \* where no call reads it before setting it to 0
    pc,         \* where the running call stands
    raised      \* the name a PlacementException carries, NoException if none

funVars == <<input, output>>

passVars == <<tree, objects, positions, orientations, global_bboxes,
              global_bboxes_json, scenes, stack, range, i, pc, raised>>

vars == <<funVars, passVars>>

NoException == "NoException"

\* the placement state in the specifications of the single functions, where no
\* placement pass runs
NoPass ==
    /\ tree = <<>>
    /\ objects = <<>>
    /\ positions = <<>>
    /\ orientations = <<>>
    /\ global_bboxes = <<>>
    /\ global_bboxes_json = <<>>
    /\ scenes = <<>>
    /\ stack = <<>>
    /\ range = <<>>
    /\ i = 0
    /\ pc = "none"
    /\ raised = NoException

\* the value of output before the function under test has been called
NoResult == [called |-> FALSE]

\* the value of output after the call
Result(v) == [called |-> TRUE, value |-> v]

----------------------------------------------------------------------------
(* Exact arithmetic in Z[sqrt 2]                                           *)

Grid(n) == 1024 * n

N(a) == <<a, 0>>

NAdd(p, q) == <<p[1] + q[1], p[2] + q[2]>>

NSub(p, q) == <<p[1] - q[1], p[2] - q[2]>>

NNeg(p) == <<0 - p[1], 0 - p[2]>>

\* p / 2
NHalf(p) == <<p[1] \div 2, p[2] \div 2>>

\* p * sqrt(2)
NMulSqrt2(p) == <<2 * p[2], p[1]>>

\* p * sqrt(2)/2
NMulHalfSqrt2(p) == <<p[2], p[1] \div 2>>

\* a + b*sqrt(2) > 0
NPos(p) ==
    LET a == p[1]
        b == p[2]
    IN  IF a >= 0 /\ b >= 0 THEN a > 0 \/ b > 0
        ELSE IF a >= 0 THEN a * a > 2 * b * b
        ELSE IF b >= 0 THEN 2 * b * b > a * a
        ELSE FALSE

NLt(p, q) == NPos(NSub(q, p))

NLe(p, q) == ~NPos(NSub(p, q))

\* Python's min(p, q): the first argument unless the second is smaller
NMin(p, q) == IF NLt(q, p) THEN q ELSE p

NAbs(p) == IF NPos(p) THEN p ELSE NNeg(p)

\* math.sqrt(2 * g**2)
SqrtTwoSquares(g) == NMulSqrt2(NAbs(g))

----------------------------------------------------------------------------
(* BBox                                                                    *)

\* x_sorted[7] on a list shorter than 8
IndexError == [raised |-> "IndexError"]

IsBBox(b) == "x_min" \in DOMAIN b

RECURSIVE insort(_, _, _)
\* p put into the sorted list s after every element whose key is not larger
insort(s, p, k) ==
    IF s = <<>> THEN <<p>>
    ELSE IF NLt(p[k], Head(s)[k]) THEN <<p>> \o s
    ELSE <<Head(s)>> \o insort(Tail(s), p, k)

RECURSIVE sortedInto(_, _, _)
sortedInto(acc, s, k) ==
    IF s = <<>> THEN acc
    ELSE sortedInto(insort(acc, Head(s), k), Tail(s), k)

\* sorted(bbox, key=itemgetter(k - 1)): a stable sort on coordinate k
sorted(bbox, k) == sortedInto(<<>>, bbox, k)

\* BBox.__init__ with the index 7 read one place too low
BBox_index6(bbox) ==
    IF Len(bbox) < 8 THEN IndexError
    ELSE LET x_sorted == sorted(bbox, 1)
             y_sorted == sorted(bbox, 2)
             z_sorted == sorted(bbox, 3)
         IN  [x_min |-> x_sorted[1][1], x_max |-> x_sorted[7][1],
              y_min |-> y_sorted[1][2], y_max |-> y_sorted[7][2],
              z_min |-> z_sorted[1][3], z_max |-> z_sorted[7][3]]

\* BBox.__init__: the list sorted per axis, elements [0] and [7] taken
BBox(bbox) ==
    IF Len(bbox) < 8 THEN IndexError
    ELSE LET x_sorted == sorted(bbox, 1)
             y_sorted == sorted(bbox, 2)
             z_sorted == sorted(bbox, 3)
         IN  [x_min |-> x_sorted[1][1], x_max |-> x_sorted[8][1],
              y_min |-> y_sorted[1][2], y_max |-> y_sorted[8][2],
              z_min |-> z_sorted[1][3], z_max |-> z_sorted[8][3]]

----------------------------------------------------------------------------
(* RootNode.within_root_bbox, RootNode.in_collision                        *)

OBJECT_SCALE == 1

\* p * k for an integer k
NScale(p, k) == <<p[1] * k, p[2] * k>>

\* within_root_bbox with <= where the code has <
within_root_bbox_closed(local_bbox, object_bbox, x, y) ==
    LET min_xy_dim ==
            NScale(NMin(NSub(object_bbox.x_max, object_bbox.x_min),
                        NSub(object_bbox.y_max, object_bbox.y_min)),
                   OBJECT_SCALE)
    IN  /\ NLe(NAdd(local_bbox.x_min, min_xy_dim), x)
        /\ NLe(x, NSub(local_bbox.x_max, min_xy_dim))
        /\ NLe(NAdd(local_bbox.y_min, min_xy_dim), y)
        /\ NLe(y, NSub(local_bbox.y_max, min_xy_dim))

\* within_root_bbox with the margin taken as the larger planar dimension
within_root_bbox_max(local_bbox, object_bbox, x, y) ==
    LET w == NSub(object_bbox.x_max, object_bbox.x_min)
        h == NSub(object_bbox.y_max, object_bbox.y_min)
        max_xy_dim == NScale(IF NLt(w, h) THEN h ELSE w, OBJECT_SCALE)
    IN  /\ NLt(NAdd(local_bbox.x_min, max_xy_dim), x)
        /\ NLt(x, NSub(local_bbox.x_max, max_xy_dim))
        /\ NLt(NAdd(local_bbox.y_min, max_xy_dim), y)
        /\ NLt(y, NSub(local_bbox.y_max, max_xy_dim))

\* RootNode.within_root_bbox(object, x, y); local_bbox is self.local_bbox and
\* object_bbox is object.local_bbox
within_root_bbox(local_bbox, object_bbox, x, y) ==
    LET min_xy_dim ==
            NScale(NMin(NSub(object_bbox.x_max, object_bbox.x_min),
                        NSub(object_bbox.y_max, object_bbox.y_min)),
                   OBJECT_SCALE)
    IN  /\ NLt(NAdd(local_bbox.x_min, min_xy_dim), x)
        /\ NLt(x, NSub(local_bbox.x_max, min_xy_dim))
        /\ NLt(NAdd(local_bbox.y_min, min_xy_dim), y)
        /\ NLt(y, NSub(local_bbox.y_max, min_xy_dim))

\* the test of in_collision with > where the code has >= on x_max
overlaps_strict(bbox, bbox2) ==
    /\ NLt(bbox2.x_min, bbox.x_max)
    /\ NLe(bbox.x_min, bbox2.x_max)
    /\ NLe(bbox2.y_min, bbox.y_max)
    /\ NLe(bbox.y_min, bbox2.y_max)

\* the condition of the if in in_collision's loop
overlaps(bbox, bbox2) ==
    /\ NLe(bbox2.x_min, bbox.x_max)
    /\ NLe(bbox.x_min, bbox2.x_max)
    /\ NLe(bbox2.y_min, bbox.y_max)
    /\ NLe(bbox.y_min, bbox2.y_max)

\* in_collision that looks at the first recorded box only
in_collision_first(bbox, recorded) ==
    recorded # <<>> /\ overlaps(bbox, Head(recorded))

RECURSIVE in_collision(_, _)
\* RootNode.in_collision(bbox); recorded is the list of the boxes in
\* self.global_bboxes in the order the loop visits them
in_collision(bbox, recorded) ==
    IF recorded = <<>> THEN FALSE
    ELSE IF overlaps(bbox, Head(recorded)) THEN TRUE
    ELSE in_collision(bbox, Tail(recorded))

----------------------------------------------------------------------------
(* Specification of within_root_bbox as a function of its arguments        *)

\* candidate points lie on the half-grid, -MaxHalfSteps..MaxHalfSteps
MaxHalfSteps == 7

\* the box [x0, x1] x [y0, y1] x [z0, z1], in whole numbers
Box(x0, x1, y0, y1, z0, z1) ==
    [x_min |-> N(x0), x_max |-> N(x1), y_min |-> N(y0), y_max |-> N(y1),
     z_min |-> N(z0), z_max |-> N(z1)]

\* the local bounding box of an object w wide, h deep and zh high whose
\* origin is its centre
LocalBox(w, h, zh) ==
    Box(0 - w \div 2, w \div 2, 0 - h \div 2, h \div 2, 0 - zh \div 2, zh \div 2)

Surfaces ==
    { Box(Grid(-3), Grid(3), Grid(-3), Grid(3), Grid(-1), 0),
      Box(0, Grid(2), Grid(-3), Grid(3), Grid(-1), 0),
      Box(Grid(-3), Grid(3), 0, Grid(3), Grid(-1), 0) }

Footprints ==
    { LocalBox(Grid(w), Grid(h), Grid(1)) : w \in 1..3, h \in 1..3 }

HalfGrid == { N(Grid(k) \div 2) : k \in (0 - MaxHalfSteps)..MaxHalfSteps }

BoundsInputs ==
    [surface : Surfaces, object : Footprints, x : HalfGrid, y : HalfGrid]

InitBounds ==
    /\ input \in BoundsInputs
    /\ output = NoResult
    /\ NoPass

CallWithinRootBBox ==
    /\ output = NoResult
    /\ output' = Result(within_root_bbox(input.surface, input.object,
                                         input.x, input.y))
    /\ UNCHANGED <<input, passVars>>

NextBounds == CallWithinRootBBox

SpecBounds == InitBounds /\ [][NextBounds]_vars

Width(b) == NSub(b.x_max, b.x_min)

Height(b) == NSub(b.y_max, b.y_min)

\* the footprint of the object, centred at (x, y), lies strictly inside s
FootprintInside(s, o, x, y) ==
    /\ NLt(s.x_min, NSub(x, NHalf(Width(o))))
    /\ NLt(NAdd(x, NHalf(Width(o))), s.x_max)
    /\ NLt(s.y_min, NSub(y, NHalf(Height(o))))
    /\ NLt(NAdd(y, NHalf(Height(o))), s.y_max)

\* the larger planar dimension is more than twice the smaller
Elongated(o) ==
    \/ NLt(NScale(Width(o), 2), Height(o))
    \/ NLt(NScale(Height(o), 2), Width(o))

\* C5 as claimed: an accepted candidate's footprint lies strictly inside the
\* surface, whatever the footprint.
C5_ContainmentAll ==
    (output.called /\ output.value) =>
        FootprintInside(input.surface, input.object, input.x, input.y)

\* C5 as amended: an accepted candidate's footprint lies strictly inside the
\* surface when its larger planar dimension is at most twice the smaller.
C5_Containment ==
    (output.called /\ output.value /\ ~Elongated(input.object)) =>
        FootprintInside(input.surface, input.object, input.x, input.y)

\* an accepted candidate of a 2 x 1 footprint, as near the edge as the grid allows
C5_Witness ==
    /\ output.called
    /\ output.value
    /\ ~Elongated(input.object)
    /\ Width(input.object) = N(Grid(2))
    /\ Height(input.object) = N(Grid(1))
    /\ input.x = NAdd(input.surface.x_min, N(Grid(3) \div 2))

\* the margin d of C6: the smaller planar dimension
MarginOf(o) == IF NLe(Width(o), Height(o)) THEN Width(o) ELSE Height(o)

\* C6: within_root_bbox holds exactly of the points more than d away from all
\* four sides, d the smaller planar dimension of the candidate; it holds of no
\* point when the surface is not wider than 2d on some axis.
C6_SafeInterior ==
    output.called =>
        LET s == input.surface
            d == MarginOf(input.object)
            interior ==
                /\ NPos(NSub(NSub(input.x, s.x_min), d))
                /\ NPos(NSub(NSub(s.x_max, input.x), d))
                /\ NPos(NSub(NSub(input.y, s.y_min), d))
                /\ NPos(NSub(NSub(s.y_max, input.y), d))
        IN  /\ output.value <=> interior
            /\ (\/ NLe(Width(s), NScale(d, 2))
                \/ NLe(Height(s), NScale(d, 2))) => ~output.value

\* a point exactly d from the left side, well inside on the other axis, rejected
C6_Witness ==
    /\ output.called
    /\ ~output.value
    /\ input.x = NAdd(input.surface.x_min, MarginOf(input.object))
    /\ NLt(NAdd(input.surface.y_min, MarginOf(input.object)), input.y)
    /\ NLt(input.y, NSub(input.surface.y_max, MarginOf(input.object)))
    /\ NLt(NScale(MarginOf(input.object), 2), Width(input.surface))

----------------------------------------------------------------------------
(* Specification of in_collision as a function of the boxes                *)

\* box corners lie in 0..MaxBox
MaxBox == 2

Intervals == { iv \in (0..MaxBox) \X (0..MaxBox) : iv[1] <= iv[2] }

FlatBoxes == { Box(ix[1], ix[2], iy[1], iy[2], 0, 1) : ix \in Intervals, iy \in Intervals }

\* the box b at another height
Lifted(b, z0, z1) == [b EXCEPT !.z_min = N(z0), !.z_max = N(z1)]

ThirdBoxes == { Box(0, 0, 0, 0, 0, 1), Box(1, 2, 0, 1, 0, 1), Box(2, 2, 2, 2, 0, 1) }

CollisionInputs ==
    [a : FlatBoxes \cup { Lifted(b, 5, 6) : b \in FlatBoxes },
     b : FlatBoxes, c : ThirdBoxes]

InitCollision ==
    /\ input \in CollisionInputs
    /\ output = NoResult
    /\ NoPass

CallInCollision ==
    /\ output = NoResult
    /\ output' = Result([ab   |-> in_collision(input.a, <<input.b>>),
                         ba   |-> in_collision(input.b, <<input.a>>),
                         flat |-> in_collision(Lifted(input.a, 0, 1), <<input.b>>),
                         a_bc |-> in_collision(input.a, <<input.b, input.c>>),
                         a_cb |-> in_collision(input.a, <<input.c, input.b>>),
                         ac   |-> in_collision(input.a, <<input.c>>)])
    /\ UNCHANGED <<input, passVars>>

NextCollision == CallInCollision

SpecCollision == InitCollision /\ [][NextCollision]_vars

\* the closed intervals [lo1, hi1] and [lo2, hi2] share no point
Disjoint(lo1, hi1, lo2, hi2) == NLt(hi1, lo2) \/ NLt(hi2, lo1)

\* C7: the collision test is symmetric; boxes disjoint on x or on y never
\* collide and boxes touching or overlapping on both always do; z extents and
\* the order of the recorded boxes do not matter.
C7_CollisionSymmetric ==
    output.called =>
        LET a == input.a
            b == input.b
            r == output.value
            apart == \/ Disjoint(a.x_min, a.x_max, b.x_min, b.x_max)
                     \/ Disjoint(a.y_min, a.y_max, b.y_min, b.y_max)
        IN  /\ r.ab = r.ba
            /\ apart => ~r.ab
            /\ ~apart => r.ab
            /\ r.ab = r.flat
            /\ r.a_bc = r.a_cb
            /\ r.a_bc = (r.ab \/ r.ac)

\* two boxes at different heights that touch in one corner point collide,
\* tested either way round
C7_Witness ==
    /\ output.called
    /\ output.value.ab
    /\ output.value.ba
    /\ input.a.x_max = input.b.x_min
    /\ input.a.y_min = input.b.y_max
    /\ NLt(input.b.z_max, input.a.z_min)
    /\ ~output.value.ac

----------------------------------------------------------------------------
(* ObjectNode.calc_distance_range                                          *)

Directions ==
    {"right", "right_front", "front", "left_front",
     "left", "left_back", "back", "right_back"}

\* the narrowing with the outer division by 2 left out
close_max_dist_undivided(min_dist, max_dist) ==
    NAdd(NHalf(NAdd(max_dist, min_dist)), min_dist)

\* the narrowing by one midpoint only
close_max_dist_once(min_dist, max_dist) ==
    NHalf(NAdd(max_dist, min_dist))

\* (((max_dist + min_dist) / 2) + min_dist) / 2
close_max_dist(min_dist, max_dist) ==
    NHalf(NAdd(NHalf(NAdd(max_dist, min_dist)), min_dist))

\* [min_dist, max_dist] of calc_distance_range before the narrowing for
\* 'close': pos is self.get_root().positions[self.name], obj_bbox is
\* self.get_root().global_bboxes[self.name], root_bbox the root's global box,
\* object_bbox is object.local_bbox, direction is self.directions[object]
distance_bounds(pos, obj_bbox, root_bbox, object_bbox, direction) ==
    LET x == pos[1]
        y == pos[2]
        min_xy_dim ==
            NHalf(NScale(NMin(NSub(object_bbox.x_max, object_bbox.x_min),
                              NSub(object_bbox.y_max, object_bbox.y_min)),
                         OBJECT_SCALE))
    IN  CASE direction = "back" ->
                <<NAdd(NSub(x, obj_bbox.x_min), min_xy_dim),
                  NSub(NSub(x, root_bbox.x_min), min_xy_dim)>>
          [] direction = "right_back" ->
                <<NAdd(SqrtTwoSquares(NMin(NSub(x, obj_bbox.x_min),
                                           NSub(obj_bbox.y_max, y))), min_xy_dim),
                  NSub(SqrtTwoSquares(NMin(NSub(x, root_bbox.x_min),
                                           NSub(root_bbox.y_max, y))), min_xy_dim)>>
          [] direction = "right" ->
                <<NAdd(NSub(obj_bbox.y_max, y), min_xy_dim),
                  NSub(NSub(root_bbox.y_max, y), min_xy_dim)>>
          [] direction = "right_front" ->
                <<NAdd(SqrtTwoSquares(NMin(NSub(obj_bbox.x_max, x),
                                           NSub(obj_bbox.y_max, y))), min_xy_dim),
                  NSub(SqrtTwoSquares(NMin(NSub(root_bbox.x_max, x),
                                           NSub(root_bbox.y_max, y))), min_xy_dim)>>
          [] direction = "left_front" ->
                <<NAdd(SqrtTwoSquares(NMin(NSub(obj_bbox.x_max, x),
                                           NSub(y, obj_bbox.y_min))), min_xy_dim),
                  NSub(SqrtTwoSquares(NMin(NSub(root_bbox.x_max, x),
                                           NSub(y, root_bbox.y_min))), min_xy_dim)>>
          [] direction = "left" ->
                <<NAdd(NSub(y, obj_bbox.y_min), min_xy_dim),
                  NSub(NSub(y, root_bbox.y_min), min_xy_dim)>>
          [] direction = "left_back" ->
                <<NAdd(SqrtTwoSquares(NMin(NSub(x, obj_bbox.x_min),
                                           NSub(y, obj_bbox.y_min))), min_xy_dim),
                  NSub(SqrtTwoSquares(NMin(NSub(x, root_bbox.x_min),
                                           NSub(y, root_bbox.y_min))), min_xy_dim)>>
          [] OTHER ->
                <<NAdd(NSub(obj_bbox.x_max, x), min_xy_dim),
                  NSub(NSub(root_bbox.x_max, x), min_xy_dim)>>

\* ObjectNode.calc_distance_range(object); distance is self.distances[object]
calc_distance_range(pos, obj_bbox, root_bbox, object_bbox, direction, distance) ==
    LET r == distance_bounds(pos, obj_bbox, root_bbox, object_bbox, direction)
    IN  IF distance = "close"
        THEN <<r[1], close_max_dist(r[1], r[2])>>
        ELSE r

----------------------------------------------------------------------------
(* Specification of calc_distance_range as a function of the geometry      *)

\* the parent stands on the half-grid, at Grid(k)/2 for k in 1..MaxParentPos
\* on either axis, where within_root_bbox accepts it
MaxParentPos == 11

\* the global box of an object with local box b standing at (x, y)
BoxAt(b, x, y) ==
    [x_min |-> NAdd(b.x_min, x), x_max |-> NAdd(b.x_max, x),
     y_min |-> NAdd(b.y_min, y), y_max |-> NAdd(b.y_max, y),
     z_min |-> b.z_min, z_max |-> b.z_max]

\* a root whose frame is the world's, so that its local and global boxes agree
DistanceInputs ==
    { g \in [x : {N(Grid(k) \div 2) : k \in 1..MaxParentPos},
             y : {N(Grid(k) \div 2) : k \in 1..MaxParentPos},
             parent : {LocalBox(Grid(1), Grid(1), Grid(1)),
                       LocalBox(Grid(2), Grid(1), Grid(1))},
             root_bbox : {Box(0, Grid(6), 0, Grid(6), Grid(-1), 0)},
             object : {LocalBox(Grid(1), Grid(1), Grid(1)),
                       LocalBox(Grid(4), Grid(2), Grid(1))},
             direction : Directions] :
        within_root_bbox(g.root_bbox, g.parent, g.x, g.y) }

InitDistance ==
    /\ input \in DistanceInputs
    /\ output = NoResult
    /\ NoPass

CallCalcDistanceRange ==
    /\ output = NoResult
    /\ LET obj_bbox == BoxAt(input.parent, input.x, input.y)
       IN  output' =
             Result([any |-> calc_distance_range(<<input.x, input.y>>, obj_bbox,
                                 input.root_bbox, input.object, input.direction, "any"),
                     close |-> calc_distance_range(<<input.x, input.y>>, obj_bbox,
                                 input.root_bbox, input.object, input.direction, "close")])
    /\ UNCHANGED <<input, passVars>>

NextDistance == CallCalcDistanceRange

SpecDistance == InitDistance /\ [][NextDistance]_vars

\* C8 as claimed: 'close' returns the min_dist of 'any' and a max_dist that is
\* at most that of 'any', for every geometry.
C8_CloseBelowAnyAlways ==
    output.called =>
        /\ output.value.close[1] = output.value.any[1]
        /\ NLe(output.value.close[2], output.value.any[2])

\* C8 as amended: 'close' returns the min_dist of 'any'; its max_dist is at
\* most that of 'any' when min_dist <= the max_dist of 'any', and larger than
\* that of 'any' when min_dist exceeds it.
C8_CloseBelowAny ==
    output.called =>
        LET any == output.value.any
            close == output.value.close
        IN  /\ close[1] = any[1]
            /\ NLe(any[1], any[2]) => NLe(close[2], any[2])
            /\ NLt(any[2], any[1]) => NLt(any[2], close[2])

\* a diagonal range with room in it, narrowed strictly
C8_Witness ==
    /\ output.called
    /\ input.direction = "left_front"
    /\ NLt(output.value.any[1], output.value.any[2])
    /\ NLt(output.value.close[2], output.value.any[2])
    /\ output.value.close[1] = output.value.any[1]

\* C9 as claimed: the narrowed bound is min_dist + (max_dist - min_dist) * 3/4.
C9_ThreeQuarters ==
    output.called =>
        LET any == output.value.any
            close == output.value.close
        IN  NScale(NSub(close[2], any[1]), 4) = NScale(NSub(any[2], any[1]), 3)

\* C9 as amended: the narrowed bound is min_dist + (max_dist - min_dist) * 1/4.
C9_OneQuarter ==
    output.called =>
        LET any == output.value.any
            close == output.value.close
        IN  NScale(NSub(close[2], any[1]), 4) = NSub(any[2], any[1])

\* a range of positive length narrowed to a quarter of it
C9_Witness ==
    /\ output.called
    /\ input.direction = "front"
    /\ NLt(output.value.any[1], output.value.any[2])
    /\ NScale(NSub(output.value.close[2], output.value.any[1]), 4)
           = NSub(output.value.any[2], output.value.any[1])

----------------------------------------------------------------------------
(* Specification of BBox.__init__ as a function of its point list          *)

\* how many different points the lists are drawn from
NumPoints == 3

PointList ==
    << <<N(0), N(2), N(1)>>,
       <<N(2), N(0), N(0)>>,
       <<N(1), N(1), N(2)>>,
       <<N(3), N(1), N(1)>>,
       <<<<0, 1>>, N(3), N(0)>> >>

PointPool == {PointList[n] : n \in 1..NumPoints}

\* every list of 8 points of the pool, and the lists of 7 and of 9 points of
\* its first two points
BBoxInputs ==
    [1..8 -> PointPool] \cup [1..7 -> {PointList[1], PointList[2]}]
                        \cup [1..9 -> {PointList[1], PointList[2]}]

InitBBox ==
    /\ input \in BBoxInputs
    /\ output = NoResult
    /\ NoPass

ConstructBBox ==
    /\ output = NoResult
    /\ output' = Result(BBox(input))
    /\ UNCHANGED <<input, passVars>>

NextBBox == ConstructBBox

SpecBBox == InitBBox /\ [][NextBBox]_vars

\* C10: a BBox built from exactly 8 points has min <= max on every axis, and
\* each bound is the least (greatest) value of that coordinate over the points.
C10_BBoxBounds ==
    (output.called /\ Len(input) = 8) =>
        LET b == output.value
        IN  /\ IsBBox(b)
            /\ NLe(b.x_min, b.x_max)
            /\ NLe(b.y_min, b.y_max)
            /\ NLe(b.z_min, b.z_max)
            /\ \A n \in 1..8 :
                  /\ NLe(b.x_min, input[n][1]) /\ NLe(input[n][1], b.x_max)
                  /\ NLe(b.y_min, input[n][2]) /\ NLe(input[n][2], b.y_max)
                  /\ NLe(b.z_min, input[n][3]) /\ NLe(input[n][3], b.z_max)
            /\ \E n \in 1..8 : input[n][1] = b.x_min
            /\ \E n \in 1..8 : input[n][1] = b.x_max
            /\ \E n \in 1..8 : input[n][2] = b.y_min
            /\ \E n \in 1..8 : input[n][2] = b.y_max
            /\ \E n \in 1..8 : input[n][3] = b.z_min
            /\ \E n \in 1..8 : input[n][3] = b.z_max

\* a box built from 8 points in which the largest x comes first and occurs once
C10_Witness ==
    /\ output.called
    /\ Len(input) = 8
    /\ IsBBox(output.value)
    /\ input[1][1] = output.value.x_max
    /\ \A n \in 2..8 : NLt(input[n][1], output.value.x_max)
    /\ NLt(output.value.y_min, output.value.y_max)

\* C11: a BBox built from a list that does not hold exactly 8 points is an
\* error raised by the constructor and never a box with bounds; in particular
\* no box comes out of more than 8 points whose max bounds are not the
\* largest coordinates of the points.
C11_OnlyEightPoints ==
    (output.called /\ Len(input) # 8) =>
        /\ ~IsBBox(output.value)
        /\ "raised" \in DOMAIN output.value

----------------------------------------------------------------------------
(* AbstractNode: anchors.  ObjectNode: directions                          *)

\* p * q
NMul(p, q) == <<p[1] * q[1] + 2 * p[2] * q[2], p[1] * q[2] + p[2] * q[1]>>

\* p / 6
NSixth(p) == <<p[1] \div 6, p[2] \div 6>>

Anchors ==
    {"north", "north_east", "east", "south_east", "south",
     "south_west", "west", "north_west", "center"}

\* calc_anchors with south_west written with the factors of south_east
calc_anchors_south_west_as_south_east(local_bbox) ==
    LET x == NSixth(NSub(local_bbox.x_max, local_bbox.x_min))
        y == NSixth(NSub(local_bbox.y_max, local_bbox.y_min))
        at(a, b) == <<NAdd(local_bbox.x_min, NScale(x, a)),
                      NAdd(local_bbox.y_min, NScale(y, b))>>
    IN  [x_sigma |-> NMul(x, x), y_sigma |-> NMul(y, y),
         north |-> at(1, 3), north_east |-> at(1, 5), east |-> at(3, 5),
         south_east |-> at(5, 5), south |-> at(5, 3), south_west |-> at(5, 5),
         west |-> at(3, 1), north_west |-> at(1, 1), center |-> at(3, 3)]

\* AbstractNode.calc_anchors: x_sigma, y_sigma and the nine anchors
calc_anchors(local_bbox) ==
    LET x == NSixth(NSub(local_bbox.x_max, local_bbox.x_min))
        y == NSixth(NSub(local_bbox.y_max, local_bbox.y_min))
        at(a, b) == <<NAdd(local_bbox.x_min, NScale(x, a)),
                      NAdd(local_bbox.y_min, NScale(y, b))>>
    IN  [x_sigma |-> NMul(x, x), y_sigma |-> NMul(y, y),
         north |-> at(1, 3), north_east |-> at(1, 5), east |-> at(3, 5),
         south_east |-> at(5, 5), south |-> at(5, 3), south_west |-> at(5, 1),
         west |-> at(3, 1), north_west |-> at(1, 1), center |-> at(3, 3)]

\* AbstractNode.get_anchor, on the record calc_anchors made
get_anchor(node, anchor) ==
    CASE anchor = "north" -> node.north
      [] anchor = "north_east" -> node.north_east
      [] anchor = "east" -> node.east
      [] anchor = "south_east" -> node.south_east
      [] anchor = "south" -> node.south
      [] anchor = "south_west" -> node.south_west
      [] anchor = "west" -> node.west
      [] anchor = "north_west" -> node.north_west
      [] OTHER -> node.center

\* init_directions with left_back given the angle of left_front
init_directions_left_back_as_left_front ==
    [right |-> 0, right_front |-> 1, front |-> 2, left_front |-> 3,
     left |-> 4, left_back |-> 3, back |-> 6, right_back |-> 7]

\* ObjectNode.init_directions; an angle is written as its multiple of pi/4
init_directions ==
    [right |-> 0, right_front |-> 1, front |-> 2, left_front |-> 3,
     left |-> 4, left_back |-> 5, back |-> 6, right_back |-> 7]

\* ObjectNode.get_direction
get_direction(direction) ==
    CASE direction = "back" -> init_directions.back
      [] direction = "right_back" -> init_directions.right_back
      [] direction = "right" -> init_directions.right
      [] direction = "right_front" -> init_directions.right_front
      [] direction = "left_front" -> init_directions.left_front
      [] direction = "left" -> init_directions.left
      [] direction = "left_back" -> init_directions.left_back
      [] OTHER -> init_directions.front

\* math.sin(phi) * dist for phi = k * pi/4
SinTimes(k, dist) ==
    CASE k % 8 \in {0, 4} -> N(0)
      [] k % 8 \in {1, 3} -> NMulHalfSqrt2(dist)
      [] k % 8 = 2 -> dist
      [] k % 8 \in {5, 7} -> NNeg(NMulHalfSqrt2(dist))
      [] OTHER -> NNeg(dist)

\* math.cos(phi) * dist for phi = k * pi/4
CosTimes(k, dist) ==
    CASE k % 8 \in {2, 6} -> N(0)
      [] k % 8 \in {1, 7} -> NMulHalfSqrt2(dist)
      [] k % 8 = 0 -> dist
      [] k % 8 \in {3, 5} -> NNeg(NMulHalfSqrt2(dist))
      [] OTHER -> NNeg(dist)

\* lines 442-445: phi brought back by one turn when below 0 or above 2*pi
normalize_phi(phi) ==
    LET up == IF phi < 0 THEN phi + 8 ELSE phi
    IN  IF up > 8 THEN up - 8 ELSE up

\* quaternion_about_axis(yaw, [0,0,1]) for a yaw of 0 (turns = 0) or pi
\* (turns = 1): [cos(yaw/2), 0, 0, sin(yaw/2)]
quaternion_about_axis(turns) ==
    IF turns = 0 THEN <<1, 0, 0, 0>> ELSE <<0, 0, 0, 1>>

----------------------------------------------------------------------------
(* AbstractNode.calc_anchors on its own                                    *)

\* the width and the height of the boxes are 6, 12, ... 6 * MaxSixths units
MaxSixths == 3

\* local bounding boxes whose min corner lies left of, on and right of the
\* origin of the object's frame
AnchorInputs ==
    { Box(x0, x0 + 6 * w, y0, y0 + 6 * h, 0, 1) :
          x0 \in {-6, 0, 1}, y0 \in {-6, 0, 1}, w \in 1..MaxSixths, h \in 1..MaxSixths }

InitAnchors ==
    /\ input \in AnchorInputs
    /\ output = NoResult
    /\ NoPass

CallCalcAnchors ==
    /\ output = NoResult
    /\ output' = Result(calc_anchors(input))
    /\ UNCHANGED <<input, passVars>>

NextAnchors == CallCalcAnchors

SpecAnchors == InitAnchors /\ [][NextAnchors]_vars

\* the point p lies i sixths of the width and j sixths of the height of the
\* box b from its min corner
AtSixths(b, p, m, n) ==
    /\ NScale(NSub(p[1], b.x_min), 6) = NScale(NSub(b.x_max, b.x_min), m)
    /\ NScale(NSub(p[2], b.y_min), 6) = NScale(NSub(b.y_max, b.y_min), n)

\* C13: the nine anchors are the 3 x 3 grid (x_min + m*w/6, y_min + n*h/6),
\* m, n in {1, 3, 5}, every combination the place of exactly one anchor name,
\* center at (3, 3), north_west at (1, 1), south_east at (5, 5); on the box
\* 0..6 x 0..6 these are [3,3], [1,1] and [5,5]; x_sigma = (w/6)^2 and
\* y_sigma = (h/6)^2.
C13_AnchorGrid ==
    output.called =>
        LET b == input
            node == output.value
            w == NSub(b.x_max, b.x_min)
            h == NSub(b.y_max, b.y_min)
        IN  /\ \A name \in Anchors :
                  \E m \in {1, 3, 5}, n \in {1, 3, 5} :
                      AtSixths(b, get_anchor(node, name), m, n)
            /\ \A m \in {1, 3, 5}, n \in {1, 3, 5} :
                  Cardinality({name \in Anchors :
                                  AtSixths(b, get_anchor(node, name), m, n)}) = 1
            /\ AtSixths(b, get_anchor(node, "center"), 3, 3)
            /\ AtSixths(b, get_anchor(node, "north_west"), 1, 1)
            /\ AtSixths(b, get_anchor(node, "south_east"), 5, 5)
            /\ (b = Box(0, 6, 0, 6, 0, 1) =>
                  /\ get_anchor(node, "center") = <<N(3), N(3)>>
                  /\ get_anchor(node, "north_west") = <<N(1), N(1)>>
                  /\ get_anchor(node, "south_east") = <<N(5), N(5)>>)
            /\ NScale(node.x_sigma, 36) = NMul(w, w)
            /\ NScale(node.y_sigma, 36) = NMul(h, h)

\* the anchors of a box that is not square and does not start in the origin
C13_Witness ==
    /\ output.called
    /\ input = Box(1, 13, -6, 12, 0, 1)
    /\ get_anchor(output.value, "south_west") = <<N(11), N(-3)>>
    /\ output.value.x_sigma = N(4)

----------------------------------------------------------------------------
(* Relation labels: RootNode.add and ObjectNode.add store the label the    *)
(* caller gives, get_anchor and get_direction look it up during the pass   *)

\* the names the caller may write: the nine anchors and two that are none
AnchorLabels == Anchors \cup {"middle", "north_wset"}

\* the eight directions and two names that are none
DirectionLabels == Directions \cup {"behind", "font"}

\* table.add(pc1, anchor); pc1.add(keyboard1, direction); pc1.add(cup1, sibling)
LabelInputs ==
    [local_bbox : {Box(0, 6, 0, 6, 0, 1), Box(1, 13, -6, 12, 0, 1)},
     anchor : AnchorLabels, direction : DirectionLabels, sibling : DirectionLabels]

InitLabels ==
    /\ input \in LabelInputs
    /\ output = NoResult
    /\ NoPass

\* RootNode.add and ObjectNode.add: the labels are kept as given
AddNodes ==
    /\ output = NoResult
    /\ output' = [called |-> FALSE,
                  anchors |-> [pc1 |-> input.anchor],
                  directions |-> [keyboard1 |-> input.direction,
                                  cup1 |-> input.sibling]]
    /\ UNCHANGED <<input, passVars>>

\* place_objects: self.get_anchor(self.anchors[c]); place_children:
\* self.get_direction(self.directions[c]) for each child
ResolveLabels ==
    /\ ~output.called
    /\ "anchors" \in DOMAIN output
    /\ output' = Result([mu |-> get_anchor(calc_anchors(input.local_bbox),
                                           output.anchors.pc1),
                         phi_mu |-> [c \in DOMAIN output.directions |->
                                        get_direction(output.directions[c])]])
    /\ UNCHANGED <<input, passVars>>

NextLabels == AddNodes \/ ResolveLabels

SpecLabels == InitLabels /\ [][NextLabels]_vars

\* C12: a label outside the nine anchors or the eight directions is refused
\* when the child is added (UnknownAnchor, UnknownDirection): no node is ever
\* added under such a label, and no pass resolves one to a position or angle.
C12_UnknownLabelsRefused ==
    ("anchors" \in DOMAIN output \/ output.called) =>
        /\ input.anchor \in Anchors
        /\ input.direction \in Directions
        /\ input.sibling \in Directions

\* the angles the four cardinal directions are to have, in multiples of pi/4
CardinalAngle == [right |-> 0, front |-> 2, left |-> 4, back |-> 6]

\* the two cardinal directions next to a diagonal one, counter-clockwise
Neighbours ==
    [right_front |-> <<"right", "front">>, left_front |-> <<"front", "left">>,
     left_back |-> <<"left", "back">>, right_back |-> <<"back", "right">>]

\* the arithmetic mean of the angles of the neighbours of the diagonal d
MeanAngle(d) ==
    (CardinalAngle[Neighbours[d][1]] + CardinalAngle[Neighbours[d][2]]) \div 2

\* the angle half way from the first neighbour of d counter-clockwise to the
\* second: their mean, with the second a full turn (8) further when the turn
\* from the first to the second passes the angle 0
MidwayAngle(d) ==
    LET a == CardinalAngle[Neighbours[d][1]]
        b == CardinalAngle[Neighbours[d][2]]
    IN  (a + (IF b < a THEN b + 8 ELSE b)) \div 2

\* the child (keyboard1 or cup1) added under the direction d
AddedAs(c, d) ==
    (c = "keyboard1" /\ input.direction = d) \/ (c = "cup1" /\ input.sibling = d)

\* C14 as stated: right is 0, front pi/2, left pi, back 3*pi/2, every diagonal
\* direction the arithmetic mean of its two neighbours, all angles in
\* [0, 2*pi) and distinct for distinct directions.
C14_DiagonalsArithmeticMean ==
    output.called =>
        LET phi_mu == output.value.phi_mu
        IN  /\ \A c \in DOMAIN phi_mu :
                  /\ \A d \in DOMAIN CardinalAngle :
                        AddedAs(c, d) => phi_mu[c] = CardinalAngle[d]
                  /\ \A d \in DOMAIN Neighbours :
                        AddedAs(c, d) => phi_mu[c] = MeanAngle(d)
                  /\ \A d \in Directions :
                        AddedAs(c, d) => (0 <= phi_mu[c] /\ phi_mu[c] < 8)
            /\ (input.direction \in Directions /\ input.sibling \in Directions
                   /\ input.direction # input.sibling) =>
                  phi_mu.keyboard1 # phi_mu.cup1

\* C14, amended: right is 0, front pi/2, left pi, back 3*pi/2, every diagonal
\* direction lies half way between its two neighbours on the circle (for
\* right_back: between 3*pi/2 and 2*pi, which is 7*pi/4), all angles lie in
\* [0, 2*pi) and two distinct directions have distinct angles.
C14_DiagonalsMidway ==
    output.called =>
        LET phi_mu == output.value.phi_mu
        IN  /\ \A c \in DOMAIN phi_mu :
                  /\ \A d \in DOMAIN CardinalAngle :
                        AddedAs(c, d) => phi_mu[c] = CardinalAngle[d]
                  /\ \A d \in DOMAIN Neighbours :
                        AddedAs(c, d) => phi_mu[c] = MidwayAngle(d)
                  /\ \A d \in Directions :
                        AddedAs(c, d) => (0 <= phi_mu[c] /\ phi_mu[c] < 8)
            /\ (input.direction \in Directions /\ input.sibling \in Directions) =>
                  (input.direction # input.sibling <=> phi_mu.keyboard1 # phi_mu.cup1)

\* right_back and left_front looked up: 7*pi/4 and 3*pi/4
C14_Witness ==
    /\ output.called
    /\ input.direction = "right_back"
    /\ input.sibling = "left_front"
    /\ output.value.phi_mu.keyboard1 = 7
    /\ output.value.phi_mu.cup1 = 3

----------------------------------------------------------------------------
(* place_children, lines 440-445: the sampled angle and its normalisation  *)

\* random.gauss(phi_mu, DIRECTION_SIGMA) falls up to MaxPhiOffset * pi/4 from
\* phi_mu
MaxPhiOffset == 17

PhiInputs == [direction : Directions, offset : (0 - MaxPhiOffset)..MaxPhiOffset]

InitPhi ==
    /\ input \in PhiInputs
    /\ output = NoResult
    /\ NoPass

\* phi = random.gauss(phi_mu, DIRECTION_SIGMA) and the two ifs that follow
SamplePhi ==
    /\ output = NoResult
    /\ output' = Result(normalize_phi(get_direction(input.direction) + input.offset))
    /\ UNCHANGED <<input, passVars>>

NextPhi == SamplePhi

SpecPhi == InitPhi /\ [][NextPhi]_vars

\* C16: whatever value the Gaussian gives, the angle place_children computes
\* the offset with lies in [0, 2*pi).
C16_PhiNormalized ==
    output.called => (0 <= output.value /\ output.value < 8)

----------------------------------------------------------------------------
(* The scene backend (morse.rpc), for boxes that stand upright and a root  *)
(* whose frame is the world's moved by root_pose; lengths in millimetres    *)

MAX_NUM_OF_SAMPLES == 100

\* 0.005 m
Z_DIST == 5

\* width, depth and height of the objects of the simulation
Dimensions(name) ==
    CASE name = "table" -> <<Grid(6), Grid(6), Grid(1)>>
      [] name = "monitor1" -> <<Grid(1), Grid(1) \div 2, Grid(1) \div 2>>
      [] name = "keyboard1" -> <<Grid(1) \div 2, Grid(1), Grid(1) \div 4>>
      [] name = "pc1" -> <<Grid(1) \div 2, Grid(1), Grid(1)>>
      [] OTHER -> <<Grid(1) \div 4, Grid(1) \div 4, Grid(1) \div 4>>

\* the 8 corners of a box, as the backend lists them
Corners(b) ==
    << <<b.x_max, b.y_min, b.z_max>>, <<b.x_min, b.y_min, b.z_min>>,
       <<b.x_max, b.y_max, b.z_min>>, <<b.x_min, b.y_max, b.z_max>>,
       <<b.x_min, b.y_min, b.z_max>>, <<b.x_max, b.y_max, b.z_max>>,
       <<b.x_min, b.y_max, b.z_min>>, <<b.x_max, b.y_min, b.z_min>> >>

\* morse.rpc('simulation', 'get_object_bbox', name)
get_object_bbox(name) ==
    Corners(LocalBox(Dimensions(name)[1], Dimensions(name)[2], Dimensions(name)[3]))

\* morse.rpc('simulation', 'get_object_global_bbox', name) of an object whose
\* pose has been set to pos
get_object_global_bbox(name, pos) ==
    LET corners == get_object_bbox(name)
    IN  [k \in 1..8 |-> <<NAdd(corners[k][1], pos[1]),
                          NAdd(corners[k][2], pos[2]),
                          NAdd(corners[k][3], pos[3])>>]

\* morse.rpc('simulation', 'transform_to_obj_frame', root, str([x,y,z]))
transform_to_obj_frame(root_pose, p) ==
    <<NAdd(p[1], root_pose[1]), NAdd(p[2], root_pose[2]), NAdd(p[3], root_pose[3])>>

----------------------------------------------------------------------------
(* The trees the caller builds (RootNode.add, ObjectNode.add)              *)

ObjectNames == {"monitor1", "keyboard1", "pc1", "cup1"}

\* RootNode('table') and the ObjectNodes, each with the local_bbox and the
\* anchors AbstractNode.__init__ computes, yaw as set_yaw left it
BuildTree(children, anchors, directions, distances, yaw, root_pose) ==
    [root |-> "table",
     children |-> children,
     anchors |-> anchors,
     directions |-> directions,
     distances |-> distances,
     yaw |-> yaw,
     root_pose |-> root_pose,
     local_bbox |-> [n \in ObjectNames \cup {"table"} |-> BBox(get_object_bbox(n))],
     anchor_points |-> calc_anchors(BBox(get_object_bbox("table")))]

NoChildren == [n \in ObjectNames \cup {"table"} |-> <<>>]

\* the pose of a table standing in the origin of the world, and of one elsewhere
AtOrigin == <<N(0), N(0), N(0)>>

Elsewhere == <<N(Grid(4)), N(Grid(-1)), N(Grid(1))>>

\* table: monitor1 at north, then pc1 at north_west; monitor1: keyboard1 in front
TreeSiblings(root_pose) ==
    BuildTree([NoChildren EXCEPT !["table"] = <<"monitor1", "pc1">>,
                                 !["monitor1"] = <<"keyboard1">>],
              [monitor1 |-> "north", pc1 |-> "north_west"],
              [keyboard1 |-> "front"],
              [keyboard1 |-> "any"],
              [n \in ObjectNames |-> 0],
              root_pose)

\* table: monitor1 at north_west; monitor1: keyboard1 in front, cup1 right_front, close
TreeFan(root_pose) ==
    BuildTree([NoChildren EXCEPT !["table"] = <<"monitor1">>,
                                 !["monitor1"] = <<"keyboard1", "cup1">>],
              [monitor1 |-> "north_west"],
              [keyboard1 |-> "front", cup1 |-> "right_front"],
              [keyboard1 |-> "any", cup1 |-> "close"],
              [n \in ObjectNames |-> IF n = "cup1" THEN 1 ELSE 0],
              root_pose)

\* table: pc1 at south_east; pc1: keyboard1 at the back, close; keyboard1: cup1 left
TreeChain(root_pose) ==
    BuildTree([NoChildren EXCEPT !["table"] = <<"pc1">>,
                                 !["pc1"] = <<"keyboard1">>,
                                 !["keyboard1"] = <<"cup1">>],
              [pc1 |-> "south_east"],
              [keyboard1 |-> "back", cup1 |-> "left"],
              [keyboard1 |-> "close", cup1 |-> "any"],
              [n \in ObjectNames |-> 0],
              root_pose)

Trees == {TreeSiblings(Elsewhere), TreeFan(AtOrigin), TreeChain(Elsewhere)}

----------------------------------------------------------------------------
(* RootNode.place_objects and ObjectNode.place_children                    *)

\* random.gauss(mu, sigma) falls one grid cell below mu, on mu or one above
GaussOffsets == {Grid(-1), 0, Grid(1)}

\* random.gauss(phi_mu, DIRECTION_SIGMA) falls k * pi/4 from phi_mu,
\* k in -PhiSpread..PhiSpread
PhiSpread == 1

GaussSamples(mu) == {NAdd(mu, N(d)) : d \in GaussOffsets}

PhiSamples(phi_mu) == {phi_mu + k : k \in (0 - PhiSpread)..PhiSpread}

\* random.uniform(a, b) = a + (b - a) * random(), random() in [0, 1): the
\* lower end and the middle
UniformSamples(a, b) == {a, NHalf(NAdd(a, b))}

\* d[k] = v written so that every entry of d becomes v
Put_overwriting(d, k, v) == [n \in DOMAIN d \cup {k} |-> v]

\* d[k] = v filed under the name of the root instead of k
Put_under_root(d, k, v) == [n \in DOMAIN d \cup {"table"} |-> IF n = "table" THEN v ELSE d[n]]

\* d[k] = v
Put(d, k, v) == [n \in DOMAIN d \cup {k} |-> IF n = k THEN v ELSE d[n]]

\* the running call and the child its for loop is at
Top == stack[Len(stack)]

Child == tree.children[Top.node][Top.idx]

\* the boxes self.global_bboxes holds, in the order they were recorded
RecordedBoxes == [k \in 1..Len(objects) |-> global_bboxes[objects[k]]]

\* while True: the loop left by break only
loop_continues_forever(n) == TRUE

\* the loop condition with <= for <
loop_continues_once_more(n) == n <= MAX_NUM_OF_SAMPLES

\* while i < MAX_NUM_OF_SAMPLES
loop_continues(n) == n < MAX_NUM_OF_SAMPLES

\* if i >= MAX_NUM_OF_SAMPLES
exhausted(n) == n >= MAX_NUM_OF_SAMPLES

\* z of a candidate for the object c
CandidateZ(c) ==
    NAdd(NAdd(tree.local_bbox[tree.root].z_max,
              NHalf(NSub(tree.local_bbox[c].z_max, tree.local_bbox[c].z_min))),
         N(Z_DIST))

\* the second test of the loop body: not self.in_collision(global_bbox)
collision_free(bbox, recorded) == ~in_collision(bbox, recorded)

\* lines 253-275 and 458-482: the body of the while loop from the first sanity
\* check on, for the candidate (x, y, z) of the child c
TryCandidate(c, x, y, z) ==
    LET root == tree.root
        pos == transform_to_obj_frame(tree.root_pose, <<x, y, z>>)
        orientation == quaternion_about_axis(tree.yaw[c])
        json_bbox == get_object_global_bbox(c, pos)
        global_bbox == BBox(json_bbox)
    IN  IF /\ within_root_bbox(tree.local_bbox[root], tree.local_bbox[c], x, y)
           /\ collision_free(global_bbox, RecordedBoxes)
        THEN \* Hooray! Object could be placed
             /\ objects' = Append(objects, c)
             /\ positions' = Put(positions, c, pos)
             /\ orientations' = Put(orientations, c, orientation)
             /\ global_bboxes' = Put(global_bboxes, c, global_bbox)
             /\ global_bboxes_json' = Put(global_bboxes_json, c, json_bbox)
             /\ pc' = "placed"
             /\ UNCHANGED i
        ELSE /\ i' = i + 1
             /\ UNCHANGED <<objects, positions, orientations, global_bboxes,
                            global_bboxes_json, pc>>

\* place_objects, for c in self.children: the next child, i = 0
PlaceObjectsNextChild ==
    /\ pc = "for"
    /\ Len(stack) = 1
    /\ Top.idx < Len(tree.children[Top.node])
    /\ stack' = <<[Top EXCEPT !.idx = Top.idx + 1]>>
    /\ i' = 0
    /\ pc' = "while"
    /\ UNCHANGED <<funVars, tree, objects, positions, orientations, global_bboxes,
                   global_bboxes_json, scenes, range, raised>>

\* place_objects, one turn of the while loop
PlaceObjectsSample ==
    /\ pc = "while"
    /\ Len(stack) = 1
    /\ loop_continues(i)
    /\ LET mu == get_anchor(tree.anchor_points, tree.anchors[Child])
       IN  \E x \in GaussSamples(mu[1]), y \in GaussSamples(mu[2]) :
               TryCandidate(Child, x, y, CandidateZ(Child))
    /\ UNCHANGED <<funVars, tree, scenes, stack, range, raised>>

\* the exception after the last child's failure is swallowed
after_raise_swallowed == "for"

\* where a call stands after raise PlacementException(c.name): nowhere, the
\* exception leaves place_children and place_objects
after_raise == "raised"

\* place_objects, if i >= MAX_NUM_OF_SAMPLES: raise PlacementException(c.name)
PlaceObjectsRaise ==
    /\ pc \in {"while", "placed"}
    /\ Len(stack) = 1
    /\ ~(pc = "while" /\ loop_continues(i))
    /\ exhausted(i)
    /\ raised' = Child
    /\ pc' = after_raise
    /\ UNCHANGED <<funVars, tree, objects, positions, orientations, global_bboxes,
                   global_bboxes_json, scenes, stack, range, i>>

\* the call of c.place_children() left out
enter_place_children_skipped(frames, c) == frames

\* the calls once c.place_children() is entered
enter_place_children(frames, c) == Append(frames, [node |-> c, idx |-> 0])

\* place_objects, c.place_children()
PlaceObjectsDescend ==
    /\ pc \in {"while", "placed"}
    /\ Len(stack) = 1
    /\ ~(pc = "while" /\ loop_continues(i))
    /\ ~exhausted(i)
    /\ stack' = enter_place_children(stack, Child)
    /\ i' = 0
    /\ pc' = "for"
    /\ UNCHANGED <<funVars, tree, objects, positions, orientations, global_bboxes,
                   global_bboxes_json, scenes, range, raised>>

\* place_objects, after the for loop: the scene is made and appended
PlaceObjectsScene ==
    /\ pc = "for"
    /\ Len(stack) = 1
    /\ Top.idx = Len(tree.children[Top.node])
    /\ scenes' = Append(scenes, [no |-> 1, objects |-> objects,
                                 position |-> positions,
                                 orientation |-> orientations,
                                 bbox |-> global_bboxes_json])
    /\ pc' = "done"
    /\ UNCHANGED <<funVars, tree, objects, positions, orientations, global_bboxes,
                   global_bboxes_json, stack, range, i, raised>>

\* place_children, for c in self.children: the next child, its distance
\* range, i = 0
PlaceChildrenNextChild ==
    /\ pc = "for"
    /\ Len(stack) > 1
    /\ Top.idx < Len(tree.children[Top.node])
    /\ LET self == Top.node
           c == tree.children[self][Top.idx + 1]
           root_bbox == BBox(get_object_global_bbox(tree.root, tree.root_pose))
       IN  range' = calc_distance_range(positions[self], global_bboxes[self],
                                        root_bbox, tree.local_bbox[c],
                                        tree.directions[c], tree.distances[c])
    /\ stack' = [stack EXCEPT ![Len(stack)].idx = Top.idx + 1]
    /\ i' = 0
    /\ pc' = "while"
    /\ UNCHANGED <<funVars, tree, objects, positions, orientations, global_bboxes,
                   global_bboxes_json, scenes, raised>>

\* place_children, one turn of the while loop
PlaceChildrenSample ==
    /\ pc = "while"
    /\ Len(stack) > 1
    /\ loop_continues(i)
    /\ LET self == Top.node
           phi_mu == get_direction(tree.directions[Child])
           root_pose == tree.root_pose
       IN  \E sample \in PhiSamples(phi_mu), dist \in UniformSamples(range[1], range[2]) :
               LET phi == normalize_phi(sample)
                   x_rel == SinTimes(phi, dist)
                   y_rel == CosTimes(phi, dist)
                   x == NAdd(NSub(positions[self][1], root_pose[1]), x_rel)
                   y == NAdd(NSub(positions[self][2], root_pose[2]), y_rel)
               IN  TryCandidate(Child, x, y, CandidateZ(Child))
    /\ UNCHANGED <<funVars, tree, scenes, stack, range, raised>>

\* place_children, if i >= MAX_NUM_OF_SAMPLES: raise PlacementException(c.name)
PlaceChildrenRaise ==
    /\ pc \in {"while", "placed"}
    /\ Len(stack) > 1
    /\ ~(pc = "while" /\ loop_continues(i))
    /\ exhausted(i)
    /\ raised' = Child
    /\ pc' = after_raise
    /\ UNCHANGED <<funVars, tree, objects, positions, orientations, global_bboxes,
                   global_bboxes_json, scenes, stack, range, i>>

\* place_children, c.place_children()
PlaceChildrenDescend ==
    /\ pc \in {"while", "placed"}
    /\ Len(stack) > 1
    /\ ~(pc = "while" /\ loop_continues(i))
    /\ ~exhausted(i)
    /\ stack' = enter_place_children(stack, Child)
    /\ i' = 0
    /\ pc' = "for"
    /\ UNCHANGED <<funVars, tree, objects, positions, orientations, global_bboxes,
                   global_bboxes_json, scenes, range, raised>>

\* place_children, after the for loop: back in the caller's for loop
PlaceChildrenReturn ==
    /\ pc = "for"
    /\ Len(stack) > 1
    /\ Top.idx = Len(tree.children[Top.node])
    /\ stack' = SubSeq(stack, 1, Len(stack) - 1)
    /\ UNCHANGED <<funVars, tree, objects, positions, orientations, global_bboxes,
                   global_bboxes_json, scenes, range, i, pc, raised>>

\* the tree is built and table.place_objects(1) has been called
Init ==
    /\ input = <<>>
    /\ output = NoResult
    /\ tree \in Trees
    /\ objects = <<>>
    /\ positions = <<>>
    /\ orientations = <<>>
    /\ global_bboxes = <<>>
    /\ global_bboxes_json = <<>>
    /\ scenes = <<>>
    /\ stack = <<[node |-> tree.root, idx |-> 0]>>
    /\ range = <<>>
    /\ i = 0
    /\ pc = "for"
    /\ raised = NoException

Next ==
    \/ PlaceObjectsNextChild
    \/ PlaceObjectsSample
    \/ PlaceObjectsRaise
    \/ PlaceObjectsDescend
    \/ PlaceObjectsScene
    \/ PlaceChildrenNextChild
    \/ PlaceChildrenSample
    \/ PlaceChildrenRaise
    \/ PlaceChildrenDescend
    \/ PlaceChildrenReturn

Spec == Init /\ [][Next]_vars

\* the pass of a program that keeps running: place_objects and place_children
\* are sequential code, so a step that can be taken is taken, provided the
\* backend calls return
FairSpec == Init /\ [][Next]_vars /\ WF_vars(Next)

----------------------------------------------------------------------------
(* The driver (__main__): scenes are generated until num_of_samples passes  *)
(* have succeeded.  input is the driver's argument, output its loop state:  *)
(* i, the scenes generated; attempts, the passes begun (kept for the        *)
(* properties, the program has no such counter); called, the loop was left  *)

\* num_of_samples is 0 .. MaxScenes
MaxScenes == 1

\* no pass is begun once MaxAttempts passes were
MaxAttempts == 2

\* the tree the driver builds in every turn of its loop, as far as the
\* monitor and what stands relative to it: the keyboard in front, the cup
\* right_front
DriverTrees == {TreeFan(AtOrigin)}

\* num_of_samples = int(args[0]), not below 0; i = 0
InitDriver ==
    /\ input \in [num_of_samples : 0..MaxScenes]
    /\ output = [called |-> FALSE, i |-> 0, attempts |-> 0]
    /\ NoPass

\* while i < num_of_samples: a RootNode and the ObjectNodes are made, the
\* tree is built and table.place_objects(i+1) is called
DriverStartPass ==
    /\ pc = "none"
    /\ ~output.called
    /\ output.i < input.num_of_samples
    /\ output.attempts < MaxAttempts
    /\ output' = [output EXCEPT !.attempts = output.attempts + 1]
    /\ tree' \in DriverTrees
    /\ objects' = <<>>
    /\ positions' = <<>>
    /\ orientations' = <<>>
    /\ global_bboxes' = <<>>
    /\ global_bboxes_json' = <<>>
    /\ scenes' = <<>>
    /\ stack' = <<[node |-> tree'.root, idx |-> 0]>>
    /\ range' = <<>>
    /\ i' = 0
    /\ pc' = "for"
    /\ raised' = NoException
    /\ UNCHANGED input

\* the table and its nodes are dropped at the end of a turn of the loop
DropTree ==
    /\ tree' = <<>>
    /\ objects' = <<>>
    /\ positions' = <<>>
    /\ orientations' = <<>>
    /\ global_bboxes' = <<>>
    /\ global_bboxes_json' = <<>>
    /\ scenes' = <<>>
    /\ stack' = <<>>
    /\ range' = <<>>
    /\ i' = 0
    /\ pc' = "none"
    /\ raised' = NoException

\* the driver's i after a failed pass had it also counted
after_failure_counted(n) == n + 1

\* the driver's i after except PlacementException: print(e.msg); pass
after_failure(n) == n

\* place_objects returned: i = i + 1
DriverSceneDone ==
    /\ pc = "done"
    /\ output' = [output EXCEPT !.i = output.i + 1]
    /\ DropTree
    /\ UNCHANGED input

\* except PlacementException as e: print(e.msg); pass
DriverCatch ==
    /\ pc = "raised"
    /\ output' = [output EXCEPT !.i = after_failure(output.i)]
    /\ DropTree
    /\ UNCHANGED input

\* the while condition i < num_of_samples is false: the loop is left
DriverExit ==
    /\ pc = "none"
    /\ ~output.called
    /\ ~(output.i < input.num_of_samples)
    /\ output' = [output EXCEPT !.called = TRUE]
    /\ UNCHANGED <<input, passVars>>

NextDriver ==
    \/ DriverStartPass
    \/ DriverSceneDone
    \/ DriverCatch
    \/ DriverExit
    \/ PlaceObjectsNextChild
    \/ PlaceObjectsSample
    \/ PlaceObjectsRaise
    \/ PlaceObjectsDescend
    \/ PlaceObjectsScene
    \/ PlaceChildrenNextChild
    \/ PlaceChildrenSample
    \/ PlaceChildrenRaise
    \/ PlaceChildrenDescend
    \/ PlaceChildrenReturn

SpecDriver == InitDriver /\ [][NextDriver]_vars

----------------------------------------------------------------------------
(* Properties of a placement pass                                          *)

\* the boxes a and b share no point of the (x, y) plane
Apart2D(a, b) ==
    \/ NLt(a.x_max, b.x_min)
    \/ NLt(b.x_max, a.x_min)
    \/ NLt(a.y_max, b.y_min)
    \/ NLt(b.y_max, a.y_min)

\* C1: at every point of a placement pass the world bounding boxes recorded in
\* global_bboxes are pairwise non-overlapping in the (x, y) plane.
C1_RecordedBoxesApart ==
    \A a \in DOMAIN global_bboxes, b \in DOMAIN global_bboxes :
        a # b => Apart2D(global_bboxes[a], global_bboxes[b])

\* three objects recorded, the third by a place_children two levels down and
\* after some rejected candidates
C1_Witness ==
    /\ pc = "placed"
    /\ Len(objects) = 3
    /\ Len(stack) = 3
    /\ i > 0
    /\ DOMAIN global_bboxes = {"pc1", "keyboard1", "cup1"}

\* C2: PlacementException(c.name) is raised exactly when MAX_NUM_OF_SAMPLES
\* candidates for c were rejected in a row: i counts the rejected candidates
\* of the child at hand, no candidate is drawn once i is 100, the exception
\* is raised from i = 100 only and always then, and an accepted object
\* (accepted as candidate i + 1 <= 100) does not raise.
C2_RaisedAfterAllAttempts ==
    [][/\ i <= MAX_NUM_OF_SAMPLES /\ i' <= MAX_NUM_OF_SAMPLES
       /\ (i' = i + 1 \/ objects' # objects) => i < MAX_NUM_OF_SAMPLES
       /\ (i' # i) => \/ (i' = i + 1 /\ objects' = objects /\ pc = "while")
                       \/ (i' = 0 /\ pc = "placed")
       /\ (raised' # raised) =>
              /\ pc = "while" /\ i = MAX_NUM_OF_SAMPLES
              /\ raised = NoException /\ raised' = Child /\ pc' = "raised"
              /\ \A k \in 1..Len(objects) : objects[k] # Child
       /\ (pc = "while" /\ i = MAX_NUM_OF_SAMPLES) => raised' = Child
       /\ (objects' # objects) =>
              /\ objects' = Append(objects, Child) /\ pc' = "placed"
              /\ i' = i /\ raised' = NoException
       /\ (pc = "placed") => raised' = NoException /\ i < MAX_NUM_OF_SAMPLES
      ]_vars

\* the exception raised for a child of an object node, after 100 rejections
C2_Witness ==
    /\ pc = "raised"
    /\ i = MAX_NUM_OF_SAMPLES
    /\ Len(stack) > 1
    /\ raised = Child

RECURSIVE PreOrderOf(_, _, _)
\* the names below the node n, from its child number k on, in depth-first
\* pre-order; fuel bounds the recursion by the number of nodes
PreOrderOf(n, k, fuel) ==
    IF fuel = 0 \/ k > Len(tree.children[n]) THEN <<>>
    ELSE LET c == tree.children[n][k]
         IN  <<c>> \o PreOrderOf(c, 1, fuel - 1) \o PreOrderOf(n, k + 1, fuel - 1)

PreOrder == PreOrderOf(tree.root, 1, 2 * Cardinality(ObjectNames))

\* the parent of the object c in the tree
ParentOf(c) ==
    CHOOSE n \in ObjectNames \cup {tree.root} :
        \E k \in 1..Len(tree.children[n]) : tree.children[n][k] = c

\* C3: objects is at every point the start of the pre-order traversal of the
\* tree, and the whole of it when the pass is done; the child being sampled is
\* the next name of the traversal, and its parent, if an object, has a
\* recorded pose.
C3_PreOrder ==
    /\ Len(objects) <= Len(PreOrder)
    /\ objects = SubSeq(PreOrder, 1, Len(objects))
    /\ pc = "done" => objects = PreOrder
    /\ pc = "while" =>
          /\ Len(objects) < Len(PreOrder)
          /\ Child = PreOrder[Len(objects) + 1]
          /\ Top.node = ParentOf(Child)
          /\ Top.node # tree.root => Top.node \in DOMAIN positions

\* the pass done on the tree whose first child of the root has a child of its
\* own: monitor1, its child keyboard1, then monitor1's sibling pc1
C3_Witness ==
    /\ pc = "done"
    /\ objects = <<"monitor1", "keyboard1", "pc1">>

\* C4: a scene is appended only when every node of the tree has been placed;
\* once PlacementException is raised the pass takes no further step, and no
\* scene exists then.
C4_SceneOnlyAfterAll ==
    [][/\ pc # "raised"
       /\ raised = NoException
       /\ (scenes' # scenes) =>
              /\ scenes = <<>>
              /\ Len(scenes') = 1
              /\ scenes'[1].objects = PreOrder
              /\ DOMAIN scenes'[1].position = {PreOrder[k] : k \in 1..Len(PreOrder)}
              /\ raised' = NoException
              /\ pc' = "done"
       /\ (raised' # NoException) => scenes' = <<>>
       /\ pc = "done" => UNCHANGED vars
      ]_vars

\* the exception raised two levels down, with objects recorded and no scene
C4_Witness ==
    /\ pc = "raised"
    /\ raised = "cup1"
    /\ Len(stack) = 3
    /\ objects = <<"pc1", "keyboard1">>
    /\ scenes = <<>>

\* the four maps of the root's bookkeeping
Maps == <<positions, orientations, global_bboxes, global_bboxes_json>>

\* the map after holds every entry of the map before, unchanged
Keeps(before, after) ==
    \A n \in DOMAIN before : n \in DOMAIN after /\ after[n] = before[n]

\* C17: in a pass the bookkeeping of the root grows only by acceptance: a
\* rejected candidate (i counted up) leaves objects and the four maps as they
\* are, an accepted candidate appends one name and gives each map one new
\* entry, under that name, and no step changes or removes what is recorded.
C17_BookkeepingGrows ==
    [][/\ (i' = i + 1) => (objects' = objects /\ Maps' = Maps)
       /\ (objects' # objects \/ Maps' # Maps) =>
              /\ pc = "while" /\ pc' = "placed"
              /\ objects' = Append(objects, Child)
              /\ \A k \in 1..Len(objects) : objects[k] # Child
              /\ \A m \in 1..4 :
                    /\ Child \notin DOMAIN Maps[m]
                    /\ DOMAIN Maps'[m] = DOMAIN Maps[m] \cup {Child}
       /\ \A m \in 1..4 : Keeps(Maps[m], Maps'[m])
       /\ \A k \in 1..Len(objects) : Len(objects') >= k /\ objects'[k] = objects[k]
      ]_vars

\* a candidate rejected while two objects are recorded
C17_Witness ==
    /\ pc = "while"
    /\ i = 1
    /\ Len(objects) = 2
    /\ DOMAIN global_bboxes = {objects[1], objects[2]}

\* the names of the nodes of the tree below the root
TreeNodes == {PreOrder[k] : k \in 1..Len(PreOrder)}

\* C19: at every point of a pass objects holds no name twice and the keys of
\* positions, orientations, global_bboxes and global_bboxes_json are the names
\* in objects; the scene made at the end has a position, an orientation and a
\* bbox for exactly the names of its objects list, the non-root nodes of the tree.
C19_RecordsConsistent ==
    /\ \A k, l \in 1..Len(objects) : objects[k] = objects[l] => k = l
    /\ \A m \in 1..4 : DOMAIN Maps[m] = {objects[k] : k \in 1..Len(objects)}
    /\ \A s \in 1..Len(scenes) :
          LET names == {scenes[s].objects[k] : k \in 1..Len(scenes[s].objects)}
          IN  /\ names = TreeNodes
              /\ Len(scenes[s].objects) = Cardinality(TreeNodes)
              /\ DOMAIN scenes[s].position = names
              /\ DOMAIN scenes[s].orientation = names
              /\ DOMAIN scenes[s].bbox = names
    /\ pc = "done" => Len(scenes) = 1

\* the scene of the tree with cup1 at the third level
C19_Witness ==
    /\ pc = "done"
    /\ Len(scenes) = 1
    /\ scenes[1].objects = <<"pc1", "keyboard1", "cup1">>
    /\ DOMAIN scenes[1].bbox = {"pc1", "keyboard1", "cup1"}

\* the pass is over: place_objects has returned or the exception has left it
Ended == pc \in {"done", "raised"}

\* the steps a running call may still take within its present stage: the
\* candidates left in a while loop, the calls to return from before the next
\* child of a for loop, the call to enter once an object is placed
Phase ==
    CASE pc = "while" -> 1 + MAX_NUM_OF_SAMPLES - i
      [] pc = "for" -> 2 + MAX_NUM_OF_SAMPLES + Len(stack)
      [] pc = "placed" -> 4 + MAX_NUM_OF_SAMPLES + Len(stack)
      [] OTHER -> 0

\* a bound on the number of steps to the end of the pass: a full stage for
\* each object not yet recorded and the rest of the present stage; none when
\* the pass is over
Rank ==
    IF Ended THEN 0
    ELSE (Len(PreOrder) - Len(objects)) * (6 + MAX_NUM_OF_SAMPLES + Len(PreOrder)) + Phase

\* a running pass has a step to take: the for loop has a next child or is at
\* its end, the while loop goes on or the exception is due, the recursive
\* call follows an accepted object
CanStep ==
    /\ pc = "for" => Top.idx <= Len(tree.children[Top.node])
    /\ pc = "while" => (loop_continues(i) \/ exhausted(i))
    /\ pc = "placed" => ~exhausted(i)

\* what holds in every state of a pass: it is running or over, i stays
\* within the sample budget, the rank is a natural number, a pass that
\* returned has recorded every object and appended one scene, a pass the
\* exception ended names the first object that was not placed
PassState ==
    /\ pc \in {"for", "while", "placed", "done", "raised"}
    /\ CanStep
    /\ i >= 0 /\ i <= MAX_NUM_OF_SAMPLES
    /\ Rank >= 0
    /\ Ended => Rank = 0
    /\ pc = "done" =>
          /\ objects = PreOrder
          /\ Len(scenes) = 1
          /\ raised = NoException
    /\ pc = "raised" =>
          /\ Len(objects) < Len(PreOrder)
          /\ raised = PreOrder[Len(objects) + 1]
          /\ i = MAX_NUM_OF_SAMPLES
          /\ scenes = <<>>

\* C18: a pass over a finite tree comes to an end.  Every step of the pass
\* lowers Rank, a natural number, and a pass that is not over can take a step,
\* so under FairSpec the pass is over after at most Rank steps.  Every object
\* is sampled in one while loop, entered once with i = 0 (Pending -> Sampling),
\* which draws at most MAX_NUM_OF_SAMPLES candidates and ends with the object
\* placed or with the exception (Placed | Failed): hence at most 100
\* candidates per object and 100 * N in the pass.  The pass ends with all N
\* objects recorded and one scene appended, or with the exception for the
\* first object whose candidates were all rejected.
C18_PassTerminates ==
    /\ PassState
    /\ [][/\ PassState'
          /\ Rank' < Rank
          /\ ~Ended
          /\ (pc # "while" /\ pc' = "while") =>
                /\ pc = "for" /\ i' = 0
                /\ Len(objects) < Len(PreOrder)
                /\ Child' = PreOrder[Len(objects) + 1]
                /\ \A k \in 1..Len(objects) : objects[k] # Child'
          /\ (pc = "while") =>
                \/ pc' = "while" /\ i' = i + 1 /\ i < MAX_NUM_OF_SAMPLES
                \/ pc' = "placed" /\ i < MAX_NUM_OF_SAMPLES
                      /\ objects' = Append(objects, Child)
                \/ pc' = "raised" /\ i = MAX_NUM_OF_SAMPLES
         ]_vars

\* the pass ended by place_objects itself: no candidate of pc1 was accepted
\* once monitor1 and keyboard1 stood
C18_Witness ==
    /\ pc = "raised"
    /\ Len(stack) = 1
    /\ raised = "pc1"
    /\ objects = <<"monitor1", "keyboard1">>

\* C15 as stated: the driver begins at most num_of_samples passes, so its
\* loop ends even if every pass raises the exception.
C15_AttemptsWithinBudget == output.attempts <= input.num_of_samples

\* what holds of the driver's counters in every state
DriverState ==
    /\ output.i >= 0 /\ output.i <= input.num_of_samples
    /\ output.i <= output.attempts
    /\ output.called => output.i = input.num_of_samples
    /\ pc = "raised" => output.i < input.num_of_samples

\* C15, amended: the driver retries a failed scene with a freshly built tree
\* on a fresh root, and num_of_samples bounds the scenes generated, not the
\* passes begun: i counts the passes that returned, a pass that raised leaves
\* i as it is and the loop goes on, and the loop is left only when i has
\* reached num_of_samples.
C15_ScenesWithinBudget ==
    /\ DriverState
    /\ [][/\ DriverState'
          /\ (output'.attempts # output.attempts) =>
                /\ pc = "none" /\ output.i < input.num_of_samples
                /\ output'.attempts = output.attempts + 1
                /\ output'.i = output.i
                /\ tree' \in DriverTrees
                /\ objects' = <<>> /\ scenes' = <<>>
                /\ \A m \in 1..4 : Maps'[m] = <<>>
          /\ (output'.i # output.i) =>
                /\ pc = "done" /\ Len(scenes) = 1
                /\ output'.i = output.i + 1
          /\ (pc = "raised") =>
                /\ output'.i = output.i
                /\ ~output'.called
                /\ pc' = "none"
          /\ (pc = "none" /\ pc' = "none") =>
                /\ output.i = input.num_of_samples
                /\ output'.called
         ]_vars

\* a scene generated at the second attempt with num_of_samples = 1, and the
\* loop left
C15_Witness ==
    /\ output.called
    /\ input.num_of_samples = 1
    /\ output.attempts = 2
    /\ output.i = 1

====
